---- MODULE Spec2Model ----
(***************************************************************************)
(* The leaderboard service of flappy-face (src/server.js): the SQLite      *)
(* table `leaderboard`, and the handlers of POST /api/score, GET /api/rank *)
(* and GET /api/leaderboard.  Every awaited database call of a handler is  *)
(* one step, so the steps of handlers that are in flight together          *)
(* interleave.                                                             *)
(*                                                                         *)
(* Strings are sequences of one-character strings.  A JavaScript number is *)
(* a record: [k |-> "num", h |-> n] is the number n/2 (so that a score     *)
(* with a fractional part exists), [k |-> "nan"] is NaN and [k |-> "inf"]  *)
(* is an infinity.                                                         *)
(***************************************************************************)
EXTENDS Integers, Sequences, FiniteSets, TLC

\* ------------------------------------------------------------------ bounds
\* Largest integer score a client submits.
MaxScore == 1
\* Number of milliseconds the wall clock can advance.
MaxClock == 1

\* The handlers that can be in flight at once.
ScoreReqs == {"s1", "s2"}
RankReqs == {"r1"}

\* ------------------------------------------------------------------ numbers
Num(h) == [k |-> "num", h |-> h]
NaN == [k |-> "nan", h |-> 0]
Infinity == [k |-> "inf", h |-> 0]
\* A request field that is absent (undefined), or a non-numeric string.
Absent == [k |-> "absent", h |-> 0]
NonNumeric == [k |-> "text", h |-> 0]
\* The empty string.
Empty == [k |-> "empty", h |-> 0]

\* ToNumber of Number(v || 0): an absent field counts as 0.
ToNumberOrZero(v) ==
  CASE v.k = "absent" -> Num(0)
    [] v.k = "text" -> NaN
    [] v.k = "empty" -> Num(0)
    [] OTHER -> v

\* Number(v) of a request field.
ToNumber(v) ==
  CASE v.k = "absent" -> NaN
    [] v.k = "text" -> NaN
    [] v.k = "empty" -> Num(0)
    [] OTHER -> v

\* Number.isFinite
IsFinite(n) == n.k = "num"

\* Math.floor of the number h/2.
Floor(h) == h \div 2

Max(a, b) == IF a >= b THEN a ELSE b
Min(a, b) == IF a <= b THEN a ELSE b

\* ------------------------------------------------------------------ strings
WhiteChars == {" "}
KeptChars == {"a", "b", "p", "l", "y", "e", "r", "0", "1", "_", "-"}

LowerChar(c) ==
  CASE c = "A" -> "a"
    [] c = "B" -> "b"
    [] OTHER -> c

RECURSIVE TrimStart(_)
TrimStart(s) ==
  IF s = <<>> THEN s
  ELSE IF Head(s) \in WhiteChars THEN TrimStart(Tail(s)) ELSE s

RECURSIVE TrimEnd(_)
TrimEnd(s) ==
  IF s = <<>> THEN s
  ELSE IF s[Len(s)] \in WhiteChars THEN TrimEnd(SubSeq(s, 1, Len(s) - 1)) ELSE s

\* String.prototype.trim
Trim(s) == TrimEnd(TrimStart(s))

\* String.prototype.toLowerCase
ToLowerCase(s) == [i \in 1..Len(s) |-> LowerChar(s[i])]

\* replace(/\s+/g, "-"): every run of whitespace becomes one "-".
RECURSIVE DashWhitespace(_)
DashWhitespace(s) ==
  IF s = <<>> THEN s
  ELSE IF Head(s) \in WhiteChars
       THEN <<"-">> \o DashWhitespace(TrimStart(s))
       ELSE <<Head(s)>> \o DashWhitespace(Tail(s))

\* replace(/[^a-z0-9_-]/g, "")
StripOthers(s) == SelectSeq(s, LAMBDA c : c \in KeptChars)

Player == <<"p", "l", "a", "y", "e", "r">>

\* A request's username field: absent, or a string.
NoField == [given |-> FALSE, text |-> <<>>]
Field(s) == [given |-> TRUE, text |-> s]

safeUsername(input) ==
  LET raw == ToLowerCase(Trim(IF input.given THEN input.text ELSE <<>>))
      cleaned == StripOthers(DashWhitespace(raw))
  IN IF cleaned = <<>> THEN Player ELSE cleaned

\* The username fields the clients send.
UsernameInputs ==
  { NoField, Field(<<>>), Field(<<" ">>), Field(<<"!">>),
    Field(<<"a">>), Field(<<" ", "A">>), Field(<<"a", "!">>),
    Field(<<"a", " ", "b">>), Field(<<"A", " ", " ", "B", " ">>) }

\* The username fields of the clients whose requests are in flight together.
RacingInputs == { NoField, Field(<<"!">>), Field(<<"a">>), Field(<<" ", "A">>) }

\* The normalized usernames these inputs give.
Usernames == { safeUsername(i) : i \in UsernameInputs }

\* The score fields the clients send: -1/2, the integers 0..MaxScore,
\* MaxScore + 1/2, and the values that are no finite number.
ScoreInputs ==
  { Num(2 * n) : n \in 0..MaxScore } \cup {Num(-1), Num(2 * MaxScore + 1)}
    \cup {Absent, NonNumeric, Infinity}

\* History of a request: its username field is missing, empty, or leaves
\* nothing once trimmed, lowercased, dashed and stripped.
BlankUsername(input) ==
  \/ ~input.given
  \/ StripOthers(DashWhitespace(ToLowerCase(Trim(input.text)))) = <<>>

\* History of a request: its score field is absent, no number, not finite,
\* or negative.
InvalidScore(input) ==
  \/ input.k \in {"absent", "text", "nan", "inf"}
  \/ input.k = "num" /\ input.h < 0

\* ------------------------------------------------------------------ time
\* new Date(t).toISOString(): a fixed-width, zero-padded string of digits.
toISOString(t) == <<(t \div 10) % 10, t % 10>>

\* Comparison of two TEXT values in SQLite (memcmp, then length).
RECURSIVE TextLess(_, _)
TextLess(s, t) ==
  IF t = <<>> THEN FALSE
  ELSE IF s = <<>> THEN TRUE
  ELSE IF Head(s) # Head(t) THEN Head(s) < Head(t)
  ELSE TextLess(Tail(s), Tail(t))

\* ------------------------------------------------------------------ state
VARIABLES
  leaderboard,   \* the table: a set of rows [username, best, updated_at]
  clock,         \* the wall clock, in milliseconds
  score,         \* the POST /api/score handlers in flight (blank, invalid:
                 \* history, BlankUsername and InvalidScore of the request)
  rank,          \* the GET /api/rank handlers in flight (settled: history,
                 \* the username had a row when the request arrived and
                 \* no submission for it has been handled since)
  board,         \* the GET /api/leaderboard handler in flight (raw: history,
                 \* the limit parameter of the request)
  response,      \* the response on its way to a client (blank, invalid,
                 \* upload: history, those of the request it answers)
  submitted,     \* history: per username, the largest floor(score) validly submitted
  reached,       \* history: per username, the time of the submission that
                 \* first reached its present best
  avatars,       \* AVATARS_DIR: a set of files [name, mimetype, data]
  faces,         \* FACES_DIR: a set of files [name, mimetype, data]
  uploads,       \* UPLOADS_DIR of the faces.json variant, faces.json apart
  facesMap       \* faces.json: per character a file name, or <<>>

files == <<avatars, faces, uploads, facesMap>>

vars ==
  <<leaderboard, clock, score, rank, board, response, submitted, reached,
    avatars, faces, uploads, facesMap>>

\* ------------------------------------------------------------------ multipart
\* The number of distinct picture contents.
MaxData == 2

\* A file part: its MIME type, the extension of its original name, its
\* content, and whether it is larger than limits.fileSize.
NoFile == [given |-> FALSE, mimetype |-> "", ext |-> "", data |-> 0, big |-> FALSE]
File(mimetype, ext, data, big) ==
  [given |-> TRUE, mimetype |-> mimetype, ext |-> ext, data |-> data, big |-> big]

FileInputs ==
  {NoFile} \cup { File("image/png", ".png", d, FALSE) : d \in 1..MaxData }
    \cup { File("image/jpeg", ".jpg", 1, FALSE), File("text/plain", ".txt", 1, FALSE),
           File("image/png", ".png", 1, TRUE) }

CHARACTERS ==
  { <<"B", "r", "o", "x", "t", "o", "n">>, <<"L", "a", "u", "r", "e", "l">>,
    <<"H", "e", "n", "d", "r", "i", "x">>, <<"M", "a", "d", "d", "o", "x">>,
    <<"P", "h", "o", "e", "n", "i", "x">>, <<"D", "a", "d">>, <<"M", "o", "m">> }

\* A multipart request: the text field, whether it comes before the file
\* part, and the file part.
NoUpload == [key |-> NoField, first |-> TRUE, file |-> NoFile]

\* What db.get resolves to: undefined, or the selected columns of a row.
NoRow == [found |-> FALSE, best |-> 0, updated_at |-> <<>>]

\* null in a response.
Null == -1

IdleScore ==
  [pc |-> "idle", username |-> <<>>, scoreNum |-> 0, now |-> <<>>, existing |-> NoRow,
   blank |-> FALSE, invalid |-> FALSE]

IdleRank ==
  [pc |-> "idle", username |-> <<>>, total |-> 0, me |-> NoRow, settled |-> FALSE]

IdleBoard == [pc |-> "idle", limit |-> 0, raw |-> Absent]

NoResponse ==
  [to |-> "none", status |-> 0, username |-> <<>>, best |-> Null, rank |-> Null,
   total |-> Null, rows |-> <<>>, blank |-> FALSE, invalid |-> FALSE,
   url |-> <<>>, upload |-> NoUpload]

\* res.status(status).json({ ok: false, error })
ErrorResponse(to, status) == [NoResponse EXCEPT !.to = to, !.status = status]

\* res.json({ ok: true, username, best: newBest })
ScoreResponse(username, best) ==
  [NoResponse EXCEPT !.to = "score", !.status = 200, !.username = username,
                     !.best = best]

\* res.json({ ok: true, username, rank, total, best })
RankResponse(username, rnk, total, best) ==
  [NoResponse EXCEPT !.to = "rank", !.status = 200, !.username = username,
                     !.rank = rnk, !.total = total, !.best = best]

\* res.json({ ok: true, rows })
BoardResponse(rows) ==
  [NoResponse EXCEPT !.to = "board", !.status = 200, !.rows = rows]

Init ==
  /\ leaderboard = {}
  /\ clock = 0
  /\ score = [p \in ScoreReqs |-> IdleScore]
  /\ rank = [r \in RankReqs |-> IdleRank]
  /\ board = IdleBoard
  /\ response = NoResponse
  /\ submitted = [u \in Usernames |-> -1]
  /\ reached = [u \in Usernames |-> <<>>]
  /\ avatars = {}
  /\ faces = {}
  /\ uploads = {}
  /\ facesMap = [c \in CHARACTERS |-> <<>>]

\* ------------------------------------------------------------------ SQL
\* SELECT best, updated_at FROM leaderboard WHERE username = ?
\* (db.get: the first row, or none)
SelectMe(username) ==
  LET rows == { r \in leaderboard : r.username = username }
      row == CHOOSE r \in rows : TRUE
  IN IF rows = {} THEN NoRow
     ELSE [found |-> TRUE, best |-> row.best, updated_at |-> row.updated_at]

\* SELECT best FROM leaderboard WHERE username = ?
SelectBest(username) == [SelectMe(username) EXCEPT !.updated_at = <<>>]

\* InsertConflicts of a table without the PRIMARY KEY: no INSERT fails.
InsertNeverConflicts(username) == FALSE

\* The PRIMARY KEY of the table: an INSERT of a username that has a row fails.
InsertConflicts(username) == \E r \in leaderboard : r.username = username

\* INSERT INTO leaderboard (username, best, updated_at) VALUES (?, ?, ?)
Insert(username, best, now) ==
  leaderboard \cup {[username |-> username, best |-> best, updated_at |-> now]}

\* UPDATE leaderboard SET best = ?, updated_at = ? WHERE username = ?
Update(username, best, now) ==
  { IF r.username = username
      THEN [username |-> username, best |-> best, updated_at |-> now]
      ELSE r : r \in leaderboard }

\* CountAll of a COUNT that leaves out the rows of best 0.
CountAllScored == Cardinality({ r \in leaderboard : r.best > 0 })

\* SELECT COUNT(*) AS total FROM leaderboard
CountAll == Cardinality(leaderboard)

\* ------------------------------------------------------------------ clients
\* The client receives the response.  A request arrives when no response is
\* on its way: the handlers never read `response`, so this leaves every
\* interleaving of their steps possible.
Deliver ==
  /\ response # NoResponse
  /\ response' = NoResponse
  /\ UNCHANGED <<leaderboard, clock, score, rank, board, submitted, reached, files>>

\* ------------------------------------------------------------------ clock
Tick ==
  /\ clock < MaxClock
  /\ clock' = clock + 1
  /\ UNCHANGED <<leaderboard, score, rank, board, response, submitted, reached, files>>

\* ------------------------------------------------------------------ POST /api/score
\* NewBest without the Math.max: the submitted score is stored as it is.
NewBestOverwrites(existing, scoreNum) == Floor(scoreNum)

\* const newBest = Math.max(existingBest, Math.floor(scoreNum))
NewBest(existing, scoreNum) ==
  Max(IF existing.found THEN existing.best ELSE 0, Floor(scoreNum))

\* The username and score are read and validated and `now` is taken; the
\* SELECT is queued.
ScoreBegin(p, usernameField, scoreField) ==
  LET username == safeUsername(usernameField)
      scoreNum == ToNumber(scoreField)
  IN /\ score[p].pc = "idle"
     /\ response = NoResponse
     /\ IF username = <<>>
          THEN /\ response' = [ErrorResponse("score", 400) EXCEPT
                                 !.blank = BlankUsername(usernameField),
                                 !.invalid = InvalidScore(scoreField)]
               /\ UNCHANGED <<score, submitted>>
          ELSE IF ~IsFinite(scoreNum) \/ scoreNum.h < 0
          THEN /\ response' = [ErrorResponse("score", 400) EXCEPT
                                 !.blank = BlankUsername(usernameField),
                                 !.invalid = InvalidScore(scoreField)]
               /\ UNCHANGED <<score, submitted>>
          ELSE /\ score' = [score EXCEPT ![p] =
                    [IdleScore EXCEPT !.pc = "select", !.username = username,
                                      !.scoreNum = scoreNum.h,
                                      !.now = toISOString(clock),
                                      !.blank = BlankUsername(usernameField),
                                      !.invalid = InvalidScore(scoreField)]]
               /\ submitted' = [submitted EXCEPT ![username] =
                    Max(@, Floor(scoreNum.h))]
               /\ UNCHANGED response
     /\ UNCHANGED <<leaderboard, clock, rank, board, reached, files>>

\* const existing = await dbGet(`SELECT best FROM leaderboard WHERE username = ?`)
ScoreSelect(p) ==
  /\ score[p].pc = "select"
  /\ score' = [score EXCEPT ![p].pc = "write",
                            ![p].existing = SelectBest(score[p].username)]
  /\ UNCHANGED <<leaderboard, clock, rank, board, response, submitted, reached, files>>

\* The UPDATE or INSERT runs and the response is sent: 200 with the username
\* and newBest, or 500 when the statement fails.
ScoreWrite(p) ==
  LET h == score[p]
      newBest == NewBest(h.existing, h.scoreNum)
      stored == SelectBest(h.username)
      sent(r) == [r EXCEPT !.blank = h.blank, !.invalid = h.invalid]
  IN /\ h.pc = "write"
     /\ score' = [score EXCEPT ![p] = IdleScore]
     /\ rank' = [r \in RankReqs |->
          IF rank[r].username = h.username
            THEN [rank[r] EXCEPT !.settled = FALSE] ELSE rank[r]]
     /\ IF h.existing.found
          THEN /\ leaderboard' = Update(h.username, newBest, h.now)
               /\ response' = sent(ScoreResponse(h.username, newBest))
               /\ reached' = IF stored.found /\ stored.best # newBest
                               THEN [reached EXCEPT ![h.username] = h.now]
                               ELSE reached
          ELSE IF InsertConflicts(h.username)
          THEN /\ response' = sent(ErrorResponse("score", 500))
               /\ UNCHANGED <<leaderboard, reached>>
          ELSE /\ leaderboard' = Insert(h.username, newBest, h.now)
               /\ response' = sent(ScoreResponse(h.username, newBest))
               /\ reached' = [reached EXCEPT ![h.username] = h.now]
     /\ UNCHANGED <<clock, board, submitted, files>>

\* ------------------------------------------------------------------ GET /api/rank
\* AheadWhere with the tie-break turned round: updated_at > ?
AheadWhereLaterFirst(r, best, updatedAt) ==
  r.best > best \/ (r.best = best /\ TextLess(updatedAt, r.updated_at))

\* AheadWhere without the tie-break: WHERE best > ?
AheadWhereNoTieBreak(r, best, updatedAt) == r.best > best

\* WHERE best > ? OR (best = ? AND updated_at < ?)
AheadWhere(r, best, updatedAt) ==
  r.best > best \/ (r.best = best /\ TextLess(r.updated_at, updatedAt))

\* SELECT COUNT(*) AS ahead FROM leaderboard WHERE ...
CountAhead(best, updatedAt) ==
  Cardinality({ r \in leaderboard : AheadWhere(r, best, updatedAt) })

\* The username is read and the first query, the COUNT of all rows, runs.
RankCount(r, usernameField) ==
  LET username == safeUsername(usernameField)
  IN /\ rank[r].pc = "idle"
     /\ response = NoResponse
     /\ IF username = <<>>
          THEN /\ response' = ErrorResponse("rank", 400)
               /\ UNCHANGED rank
          ELSE /\ rank' = [rank EXCEPT ![r] =
                    [IdleRank EXCEPT !.pc = "me", !.username = username,
                                     !.total = CountAll,
                                     !.settled = SelectMe(username).found]]
               /\ UNCHANGED response
     /\ UNCHANGED <<leaderboard, clock, score, board, submitted, reached, files>>

\* const me = await dbGet(`SELECT best, updated_at ... WHERE username = ?`);
\* without a row the response is { rank: null, total, best: null }.
RankSelectMe(r) ==
  LET h == rank[r]
      me == SelectMe(h.username)
  IN /\ h.pc = "me"
     /\ IF me.found
          THEN /\ rank' = [rank EXCEPT ![r] = [h EXCEPT !.pc = "ahead", !.me = me]]
               /\ UNCHANGED response
          ELSE /\ rank' = [rank EXCEPT ![r] = IdleRank]
               /\ response' = RankResponse(h.username, Null, h.total, Null)
     /\ UNCHANGED <<leaderboard, clock, score, board, submitted, reached, files>>

\* The COUNT of the rows ahead runs; rank = ahead + 1 is sent.
RankCountAhead(r) ==
  LET h == rank[r]
  IN /\ h.pc = "ahead"
     /\ rank' = [rank EXCEPT ![r] = IdleRank]
     /\ response' = RankResponse(h.username,
                                 CountAhead(h.me.best, h.me.updated_at) + 1,
                                 h.total, h.me.best)
     /\ UNCHANGED <<leaderboard, clock, score, board, submitted, reached, files>>

\* ------------------------------------------------------------------ GET /api/leaderboard
LimitDefault == 20
LimitMin == 1
LimitMax == 50

\* The limit parameters the clients send (a query string, or none).
LimitInputs ==
  {Absent, NonNumeric, Empty} \cup { Num(h) : h \in {-2, 2, 3, 4, 2 * LimitMax + 2} }

\* Number.isFinite(limitRaw) ? Math.max(1, Math.min(50, limitRaw)) : 20, in halves
Limit(limitRaw) ==
  IF IsFinite(limitRaw)
    THEN Max(2 * LimitMin, Min(2 * LimitMax, limitRaw.h))
    ELSE 2 * LimitDefault

\* OrderedBefore of ORDER BY best DESC, updated_at DESC.
OrderedBeforeLatestFirst(r1, r2) ==
  r1.best > r2.best \/ (r1.best = r2.best /\ TextLess(r2.updated_at, r1.updated_at))

\* ORDER BY best DESC, updated_at ASC: r1 sorts strictly before r2.
OrderedBefore(r1, r2) ==
  r1.best > r2.best \/ (r1.best = r2.best /\ TextLess(r1.updated_at, r2.updated_at))

\* The orders in which the rows of S can come out of the ORDER BY: rows that
\* compare equal come out in either order.
RECURSIVE OrderBy(_)
OrderBy(S) ==
  IF S = {} THEN {<<>>}
  ELSE UNION { { <<r>> \o rest : rest \in OrderBy(S \ {r}) } :
               r \in { x \in S : \A y \in S : ~OrderedBefore(y, x) } }

\* LIMIT ?
LimitRows(rows, n) == SubSeq(rows, 1, Min(n, Len(rows)))

\* The limit is read; the query is queued.
BoardBegin(limitField) ==
  /\ board.pc = "idle"
  /\ response = NoResponse
  /\ board' = [pc |-> "query", limit |-> Limit(ToNumber(limitField)),
               raw |-> limitField]
  /\ UNCHANGED <<leaderboard, clock, score, rank, response, submitted, reached, files>>

\* The query runs and the response is sent.  SQLite refuses a LIMIT that is
\* no integer (datatype mismatch): the handler answers 500.
BoardQuery ==
  /\ board.pc = "query"
  /\ board' = IdleBoard
  /\ IF board.limit % 2 # 0
       THEN response' = ErrorResponse("board", 500)
       ELSE \E rows \in OrderBy(leaderboard) :
              response' = BoardResponse(LimitRows(rows, board.limit \div 2))
  /\ UNCHANGED <<leaderboard, clock, score, rank, submitted, reached, files>>

\* ------------------------------------------------------------------ files
\* fs.createWriteStream(path) and the piped file: the file of that name is
\* replaced.
WriteFile(dir, name, file) ==
  { f \in dir : f.name # name }
    \cup {[name |-> name, mimetype |-> file.mimetype, data |-> file.data]}

\* fs.unlinkSync(path), and multer removing the file it was writing.
Unlink(dir, name) == { f \in dir : f.name # name }

\* encodeURIComponent, of the characters a file name of the model can hold.
encodeURIComponent(s) == [i \in 1..Len(s) |-> IF s[i] = " " THEN "%20" ELSE s[i]]

\* req.body[field] once the parts before the file part are parsed.
BodyAtFile(upload) == IF upload.first THEN upload.key ELSE NoField

\* res.json({ ok: true, ...Url }), and an error answer, to an upload.
UploadResponse(to, dir, name, upload) ==
  [NoResponse EXCEPT !.to = to, !.status = 200, !.upload = upload,
                     !.url = <<dir>> \o encodeURIComponent(name)]
UploadError(to, status, upload) ==
  [ErrorResponse(to, status) EXCEPT !.upload = upload]

\* ------------------------------------------------------------------ POST /api/upload-avatar
\* uploadAvatar.single("avatar") and the handler. No middleware handles
\* errors: Express answers 500 to the error of a file over the size limit.
UploadAvatar(usernameField, first, file) ==
  LET upload == [key |-> usernameField, first |-> first, file |-> file]
      filename == safeUsername(BodyAtFile(upload)) \o <<".png">>
      username == safeUsername(usernameField)
  IN /\ response = NoResponse
     /\ IF ~file.given
          THEN /\ response' = UploadError("avatar", 400, upload)
               /\ UNCHANGED avatars
          ELSE IF file.big
          THEN /\ avatars' = Unlink(avatars, filename)
               /\ response' = UploadError("avatar", 500, upload)
          ELSE /\ avatars' = WriteFile(avatars, filename, file)
               /\ response' = UploadResponse("avatar", "avatars", username \o <<".png">>, upload)
     /\ UNCHANGED <<leaderboard, clock, score, rank, board, submitted, reached,
                    faces, uploads, facesMap>>

\* ------------------------------------------------------------------ POST /api/upload-face
CharacterInputs ==
  { NoField, Field(<<"D", "a", "d">>), Field(<<" ", "D", "a", "d">>),
    Field(<<"M", "o", "m">>), Field(<<"b", "o", "b">>) }

\* String(req.body.character || "").trim()
Character(input) == Trim(input.text)

\* uploadCharacterFace.single("face") and the handler. The filename callback
\* fails for a character outside CHARACTERS before anything is written, and
\* Express answers 500 to that error.
UploadFace(characterField, first, file) ==
  LET upload == [key |-> characterField, first |-> first, file |-> file]
      atFile == Character(BodyAtFile(upload))
      character == Character(characterField)
  IN /\ response = NoResponse
     /\ IF file.given /\ atFile \notin CHARACTERS
          THEN /\ response' = UploadError("face", 500, upload)
               /\ UNCHANGED faces
          ELSE IF file.given /\ file.big
          THEN /\ faces' = Unlink(faces, atFile \o <<".png">>)
               /\ response' = UploadError("face", 500, upload)
          ELSE /\ faces' = IF file.given
                             THEN WriteFile(faces, atFile \o <<".png">>, file)
                             ELSE faces
               /\ response' = IF character \notin CHARACTERS
                                THEN UploadError("face", 400, upload)
                                ELSE UploadResponse("face", "faces",
                                                    character \o <<".png">>, upload)
     /\ UNCHANGED <<leaderboard, clock, score, rank, board, submitted, reached,
                    avatars, uploads, facesMap>>

\* ------------------------------------------------------------------ POST /api/upload-face, faces.json
\* fileFilter's allowed list.
AllowedTypes == {"image/png", "image/jpeg", "image/jpg", "image/webp"}

\* path.extname(file.originalname || "").toLowerCase() || ".bin"
Ext(file) == IF file.ext = "" THEN ".bin" ELSE file.ext

\* ch.replace(/[^a-z0-9_-]/gi, "_")
SafeChars ==
  KeptChars \cup {"B", "D", "H", "L", "M", "P", "a", "d", "e", "h", "i", "l", "m", "n",
                  "o", "r", "t", "u", "x"}
safeChar(ch) == [i \in 1..Len(ch) |-> IF ch[i] \in SafeChars THEN ch[i] ELSE "_"]

\* upload.single("face"), the handler, and the error handler, which answers
\* 400 to the errors of fileFilter and of the size limit.
UploadMappedFace(characterField, first, file) ==
  LET upload == [key |-> characterField, first |-> first, file |-> file]
      filename == safeChar(Character(BodyAtFile(upload))) \o <<Ext(file)>>
      character == Character(characterField)
      saved == WriteFile(uploads, filename, file)
      oldFilename == facesMap[character]
  IN /\ response = NoResponse
     /\ IF file.given /\ file.mimetype \notin AllowedTypes
          THEN /\ response' = UploadError("face", 400, upload)
               /\ UNCHANGED <<uploads, facesMap>>
          ELSE IF file.given /\ file.big
          THEN /\ uploads' = Unlink(uploads, filename)
               /\ response' = UploadError("face", 400, upload)
               /\ UNCHANGED facesMap
          ELSE IF character \notin CHARACTERS
          THEN /\ uploads' = IF file.given THEN Unlink(saved, filename) ELSE uploads
               /\ response' = UploadError("face", 400, upload)
               /\ UNCHANGED facesMap
          ELSE IF ~file.given
          THEN /\ response' = UploadError("face", 400, upload)
               /\ UNCHANGED <<uploads, facesMap>>
          ELSE /\ uploads' = IF oldFilename # <<>> /\ oldFilename # filename
                               THEN Unlink(saved, oldFilename)
                               ELSE saved
               /\ facesMap' = [facesMap EXCEPT ![character] = filename]
               /\ response' = UploadResponse("face", "uploads", filename, upload)
     /\ UNCHANGED <<leaderboard, clock, score, rank, board, submitted, reached,
                    avatars, faces>>

\* ------------------------------------------------------------------ specifications
\* The whole service: every handler in flight with every other.  The
\* specifications after it keep the handlers a property is about, so that
\* their state spaces stay small: GET handlers write neither the table nor
\* another handler's state, so leaving them out removes no state of the rest.
Next ==
  \/ Tick
  \/ Deliver
  \/ \E p \in ScoreReqs, u \in UsernameInputs, s \in ScoreInputs : ScoreBegin(p, u, s)
  \/ \E p \in ScoreReqs : ScoreSelect(p)
  \/ \E p \in ScoreReqs : ScoreWrite(p)
  \/ \E r \in RankReqs, u \in UsernameInputs : RankCount(r, u)
  \/ \E r \in RankReqs : RankSelectMe(r)
  \/ \E r \in RankReqs : RankCountAhead(r)
  \/ \E l \in LimitInputs : BoardBegin(l)
  \/ BoardQuery
  \/ \E u \in RacingInputs, first \in BOOLEAN, f \in FileInputs : UploadAvatar(u, first, f)
  \/ \E c \in CharacterInputs, first \in BOOLEAN, f \in FileInputs : UploadFace(c, first, f)
  \/ \E c \in CharacterInputs, first \in BOOLEAN, f \in FileInputs :
       UploadMappedFace(c, first, f)

Spec == Init /\ [][Next]_vars

\* No handler is in flight.
Quiet ==
  /\ \A p \in ScoreReqs : score[p].pc = "idle"
  /\ \A r \in RankReqs : rank[r].pc = "idle"
  /\ board.pc = "idle"

\* The requests are handled one at a time: a request starts when no other is
\* in flight.
NextSeq ==
  \/ Tick
  \/ Deliver
  \/ Quiet /\ \E u \in UsernameInputs, s \in ScoreInputs : ScoreBegin("s1", u, s)
  \/ ScoreSelect("s1")
  \/ ScoreWrite("s1")
  \/ Quiet /\ \E r \in RankReqs, u \in UsernameInputs : RankCount(r, u)
  \/ \E r \in RankReqs : RankSelectMe(r)
  \/ \E r \in RankReqs : RankCountAhead(r)
  \/ Quiet /\ \E l \in LimitInputs : BoardBegin(l)
  \/ BoardQuery

SpecSeq == Init /\ [][NextSeq]_vars

\* The POST /api/score requests of two users, in flight together.
NextScore ==
  \/ Tick
  \/ Deliver
  \/ \E p \in ScoreReqs, u \in RacingInputs, s \in ScoreInputs : ScoreBegin(p, u, s)
  \/ \E p \in ScoreReqs : ScoreSelect(p)
  \/ \E p \in ScoreReqs : ScoreWrite(p)

SpecScore == Init /\ [][NextScore]_vars

\* A GET /api/rank request in flight together with POST /api/score requests
\* that are handled one at a time.
NextRank ==
  \/ Tick
  \/ Deliver
  \/ \E u \in RacingInputs, s \in ScoreInputs : ScoreBegin("s1", u, s)
  \/ ScoreSelect("s1")
  \/ ScoreWrite("s1")
  \/ \E r \in RankReqs, u \in RacingInputs : RankCount(r, u)
  \/ \E r \in RankReqs : RankSelectMe(r)
  \/ \E r \in RankReqs : RankCountAhead(r)

SpecRank == Init /\ [][NextRank]_vars

\* POST /api/score requests of two users in flight together and with a
\* GET /api/rank request; every valid score is 0.
NextEntries ==
  \/ Tick
  \/ Deliver
  \/ \E p \in ScoreReqs, u \in RacingInputs, s \in {Num(0), Absent} : ScoreBegin(p, u, s)
  \/ \E p \in ScoreReqs : ScoreSelect(p)
  \/ \E p \in ScoreReqs : ScoreWrite(p)
  \/ \E r \in RankReqs, u \in RacingInputs : RankCount(r, u)
  \/ \E r \in RankReqs : RankSelectMe(r)
  \/ \E r \in RankReqs : RankCountAhead(r)

SpecEntries == Init /\ [][NextEntries]_vars

\* The avatar uploads alone.
NextAvatar ==
  \/ Deliver
  \/ \E u \in RacingInputs, first \in BOOLEAN, f \in FileInputs : UploadAvatar(u, first, f)

SpecAvatar == Init /\ [][NextAvatar]_vars

\* The character face uploads alone.
NextFace ==
  \/ Deliver
  \/ \E c \in CharacterInputs, first \in BOOLEAN, f \in FileInputs : UploadFace(c, first, f)

SpecFace == Init /\ [][NextFace]_vars

\* The character face uploads of the faces.json variant alone.
NextMappedFace ==
  \/ Deliver
  \/ \E c \in CharacterInputs, first \in BOOLEAN, f \in FileInputs :
       UploadMappedFace(c, first, f)

SpecMappedFace == Init /\ [][NextMappedFace]_vars

\* ------------------------------------------------------------------ properties
\* The stored row of a username, and whether it has one.
HasEntry(u) == \E r \in leaderboard : r.username = u
EntryOf(u) == CHOOSE r \in leaderboard : r.username = u

\* The time a stored updated_at text stands for.
TimeOf(text) == 10 * text[1] + text[2]

\* What GET /api/rank answers for a username with a row when its reads all
\* see the present table: rank = ahead + 1.
RankOf(u) == CountAhead(SelectMe(u).best, SelectMe(u).updated_at) + 1

\* C1: the stored best of a username never decreases from one state of the
\* table to the next.
BestNeverDecreases ==
  [][\A r \in leaderboard :
       \E r2 \in leaderboard' : r2.username = r.username /\ r2.best >= r.best]_vars

\* C2: once the score requests that were in flight together have all
\* completed, the stored best of every username is the largest floor(score)
\* submitted for it: no submission is lost.
NoLostSubmission ==
  (\A p \in ScoreReqs : score[p].pc = "idle") =>
    \A u \in Usernames :
      submitted[u] >= 0 => HasEntry(u) /\ EntryOf(u).best = submitted[u]

\* C3: with the requests handled one at a time, whenever none is in flight
\* the stored best of each username is the largest floor(score) validly
\* submitted for it (and a username without a valid submission has no row),
\* and a score response carries the normalized username and the best that is
\* stored for it after the request.
SequentialBestIsMax ==
  /\ Quiet =>
       \A u \in Usernames :
         IF submitted[u] < 0 THEN ~HasEntry(u)
         ELSE HasEntry(u) /\ EntryOf(u).best = submitted[u]
  /\ (response.to = "score" /\ response.status = 200) =>
       /\ response.username \in Usernames
       /\ HasEntry(response.username)
       /\ EntryOf(response.username).best = response.best

\* C3 witness: a username whose best 1 was followed by a submission that did
\* not raise it, answered with best 1.
SequentialBestIsMaxWitness ==
  /\ Quiet
  /\ response.to = "score" /\ response.status = 200 /\ response.best = 1
  /\ HasEntry(response.username)
  /\ EntryOf(response.username).updated_at # reached[response.username]
  /\ submitted[response.username] = 1

\* C4: a valid submission for an existing username whose floor(score) does
\* not exceed the stored best leaves the row as it is, and a row's updated_at
\* changes only together with a rise of its best.
UpdatedAtOnlyOnRise ==
  [][/\ \A p \in ScoreReqs :
          ( /\ score[p].pc = "write" /\ score'[p].pc = "idle"
            /\ HasEntry(score[p].username)
            /\ Floor(score[p].scoreNum) <= EntryOf(score[p].username).best )
          => leaderboard' = leaderboard
     /\ \A r \in leaderboard, r2 \in leaderboard' :
          (r2.username = r.username /\ r2.updated_at # r.updated_at)
          => r2.best > r.best]_vars

\* C5: two users hold the same best, and the first of them reached it at a
\* strictly earlier time than the second: the first has the strictly smaller
\* rank, and every leaderboard lists it before the second.
TieBreakIsStable ==
  \A a, b \in leaderboard :
    ( /\ a.username # b.username
      /\ a.best = b.best
      /\ TimeOf(reached[a.username]) < TimeOf(reached[b.username]) )
    => /\ RankOf(a.username) < RankOf(b.username)
       /\ \A rows \in OrderBy(leaderboard) :
            \A i, j \in 1..Len(rows) : (rows[i] = a /\ rows[j] = b) => i < j

\* C6: of two rows with equal best, the one whose updated_at is strictly
\* earlier gets the strictly smaller rank.
EarlierTieRanksAhead ==
  \A a, b \in leaderboard :
    (a.best = b.best /\ TimeOf(a.updated_at) < TimeOf(b.updated_at))
    => RankOf(a.username) < RankOf(b.username)

\* C6 witness: GET /api/rank has answered rank 2 for a user whose best another
\* user reached at an earlier time.
EarlierTieRanksAheadWitness ==
  /\ response.to = "rank" /\ response.rank = 2
  /\ HasEntry(response.username)
  /\ \E a \in leaderboard :
       /\ a.best = EntryOf(response.username).best
       /\ TimeOf(a.updated_at) < TimeOf(EntryOf(response.username).updated_at)
       /\ RankOf(a.username) = 1

\* C7: the response of a GET /api/rank for a username that had a row when
\* the request arrived has 1 <= rank <= total, whatever POST /api/score
\* requests of other users are handled between its three reads.
RankWithinTotal ==
  [][\A r \in RankReqs :
       (rank[r].pc = "ahead" /\ rank'[r].pc = "idle" /\ rank[r].settled)
       => (1 <= response'.rank /\ response'.rank <= response'.total)]_vars

\* C8: with the requests handled one at a time, the rank answered for a
\* username with a row is 1 plus the number of rows with a greater best, or
\* an equal best and a strictly earlier updated_at; the row with the single
\* highest best has rank 1; best and total are those of the table.
RankIsAheadPlusOne ==
  (response.to = "rank" /\ response.status = 200 /\ response.rank # Null) =>
    LET mine == EntryOf(response.username)
    IN /\ HasEntry(response.username)
       /\ response.rank = 1 + Cardinality({ r \in leaderboard :
            \/ r.best > mine.best
            \/ r.best = mine.best /\ TimeOf(r.updated_at) < TimeOf(mine.updated_at) })
       /\ (\A r \in leaderboard : r # mine => r.best < mine.best) => response.rank = 1
       /\ response.best = mine.best
       /\ response.total = Cardinality({ r.username : r \in leaderboard })

\* C8 witness: a has submitted 0 twice, a-b has submitted more than a: a is
\* answered rank 2 of total 2.
RankIsAheadPlusOneWitness ==
  /\ response.to = "rank" /\ response.username = <<"a">>
  /\ response.rank = 2 /\ response.total = 2 /\ response.best = 0
  /\ submitted[<<"a">>] = 0 /\ submitted[<<"a", "-", "b">>] = 1
  /\ EntryOf(<<"a">>).updated_at # reached[<<"a">>]
  /\ RankOf(<<"a", "-", "b">>) = 1

\* C9: the table has one row per username, a row only for a username with a
\* valid submission, and a row for every such username whose submissions
\* have all completed; the total of GET /api/rank is the number of these
\* usernames when it is counted.
EntriesAreSubmitters ==
  /\ \A r1, r2 \in leaderboard : r1.username = r2.username => r1 = r2
  /\ \A r \in leaderboard : r.username \in Usernames /\ submitted[r.username] >= 0
  /\ \A u \in Usernames :
       submitted[u] >= 0 =>
         HasEntry(u) \/ \E p \in ScoreReqs : score[p].pc # "idle" /\ score[p].username = u

TotalCountsSubmitters ==
  \A r \in RankReqs :
    (rank[r].pc = "idle" /\ rank'[r].pc = "me") =>
      /\ rank'[r].total = Cardinality({ x.username : x \in leaderboard' })
      /\ rank'[r].total <= Cardinality({ u \in Usernames : submitted'[u] >= 0 })
      /\ (\A p \in ScoreReqs : score'[p].pc = "idle") =>
           rank'[r].total = Cardinality({ u \in Usernames : submitted'[u] >= 0 })

OneEntryPerSubmitter == []EntriesAreSubmitters /\ [][TotalCountsSubmitters]_vars

\* C9 witness: two raw usernames that normalize to one have both been
\* submitted, a second username too, and the total 2 has been counted.
OneEntryPerSubmitterWitness ==
  /\ Cardinality(leaderboard) = 2
  /\ \E r \in leaderboard : r.username = <<"a">> /\ r.updated_at # reached[<<"a">>]
  /\ \E r \in RankReqs : rank[r].pc = "me" /\ rank[r].total = 2
  /\ \A p \in ScoreReqs : score[p].pc = "idle"

\* C10: the rows of a leaderboard response are rows of the table, each once,
\* sorted by best descending and, among equal best, by updated_at ascending,
\* and no row left out sorts strictly before a returned one.
BoardIsSortedPrefix ==
  (response.to = "board" /\ response.status = 200) =>
    LET rows == response.rows
        earlier(r1, r2) ==
          r1.best > r2.best \/
            (r1.best = r2.best /\ TimeOf(r1.updated_at) < TimeOf(r2.updated_at))
    IN /\ \A i \in 1..Len(rows) : rows[i] \in leaderboard
       /\ \A i, j \in 1..Len(rows) : rows[i] = rows[j] => i = j
       /\ \A i \in 1..(Len(rows) - 1) :
            \/ rows[i].best > rows[i + 1].best
            \/ /\ rows[i].best = rows[i + 1].best
               /\ TimeOf(rows[i].updated_at) <= TimeOf(rows[i + 1].updated_at)
       /\ \A r \in leaderboard :
            (\A i \in 1..Len(rows) : rows[i] # r) =>
              \A i \in 1..Len(rows) : ~earlier(r, rows[i])

\* C10 witness: two rows of equal best and different updated_at are returned
\* and a third row, of a lower best, is left out.
BoardIsSortedPrefixWitness ==
  /\ response.to = "board" /\ Len(response.rows) = 2
  /\ response.rows[1].best = response.rows[2].best
  /\ response.rows[1].updated_at # response.rows[2].updated_at
  /\ Cardinality(leaderboard) = 3

\* C11: a POST /api/score whose username is missing, empty, or normalizes
\* to the empty string is answered 400 and leaves the table as it is.
BlankUsernameRejected ==
  [][(response' # response /\ response'.to = "score" /\ response'.blank)
     => (response'.status = 400 /\ leaderboard' = leaderboard)]_vars

\* C12: a POST /api/score whose score is absent, no number, not finite or
\* negative is answered 400 and leaves the table as it is.
InvalidScoreRejected ==
  [][(response' # response /\ response'.to = "score" /\ response'.invalid)
     => (response'.status = 400 /\ leaderboard' = leaderboard)]_vars

\* C12 witness: a request with an invalid score has been answered 400 while
\* the table has rows.
InvalidScoreRejectedWitness ==
  /\ response.to = "score" /\ response.invalid /\ ~response.blank
  /\ response.status = 400
  /\ Cardinality(leaderboard) = 2

\* C16: GET /api/rank for a username without a row answers rank null and
\* best null, with the number of rows as total, and a rank null is answered
\* only for such a username; the request leaves the table as it is.
NoEntryRankIsNull ==
  /\ [](  (response.to = "rank" /\ response.status = 200) =>
            /\ (response.rank = Null) = ~HasEntry(response.username)
            /\ (response.rank = Null) =>
                 /\ response.best = Null
                 /\ response.total = Cardinality(leaderboard) )
  /\ [][(response' # response /\ response'.to = "rank")
        => leaderboard' = leaderboard]_vars

\* C16 witness: a username without a row has been answered rank null of
\* total 2.
NoEntryRankIsNullWitness ==
  /\ response.to = "rank" /\ response.rank = Null /\ response.total = 2
  /\ ~HasEntry(response.username)

\* The limits C17 gives for a limit parameter: 20 when it is absent or no
\* finite number, else its value as an integer of 1..50.
ClaimedLimits(raw) ==
  CASE raw.k \in {"absent", "text", "nan", "inf"} -> {LimitDefault}
    [] raw.k = "empty" -> {LimitMin}
    [] raw.h < 2 * LimitMin -> {LimitMin}
    [] raw.h > 2 * LimitMax -> {LimitMax}
    [] OTHER -> {raw.h \div 2, (raw.h + 1) \div 2}

\* C17: GET /api/leaderboard answers min(N, L) rows, N the number of rows of
\* the table and L the limit the parameter gives.
BoardHasLimitRows ==
  [][(board.pc = "query" /\ board'.pc = "idle") =>
       /\ response'.status = 200
       /\ \E L \in ClaimedLimits(board.raw) :
            Len(response'.rows) = Min(Cardinality(leaderboard), L)]_vars

\* C18: a POST /api/score with a valid score is answered 200, and the table
\* then holds for its username a best of at least floor(score).
ValidScoreSucceeds ==
  [][\A p \in ScoreReqs :
       (score[p].pc = "write" /\ score'[p].pc = "idle" /\ ~score[p].invalid) =>
         /\ response'.status = 200
         /\ \E r \in leaderboard' :
              r.username = score[p].username /\ r.best >= Floor(score[p].scoreNum)]_vars

\* C19: the usernames with rows get ranks that differ, so that the ranks are
\* the values 1..total.
RanksAreDistinct ==
  /\ \A a, b \in leaderboard :
       a.username # b.username => RankOf(a.username) # RankOf(b.username)
  /\ { RankOf(r.username) : r \in leaderboard } = 1..Cardinality(leaderboard)

\* C13: a POST /api/upload-avatar whose file has a MIME type outside the
\* allowed list is answered 400 and leaves the avatar files as they are.
AvatarTypeChecked ==
  [][(/\ response' # response /\ response'.to = "avatar"
      /\ response'.upload.file.given
      /\ response'.upload.file.mimetype \notin AllowedTypes)
     => (response'.status = 400 /\ avatars' = avatars)]_vars

\* C14: a POST /api/upload-face whose character is outside CHARACTERS, the
\* field absent or after the file part included, is answered 400 and leaves
\* the face files and the faces map as they are.
InvalidCharacterRejected ==
  [][(/\ response' # response /\ response'.to = "face"
      /\ Character(response'.upload.key) \notin CHARACTERS)
     => (/\ response'.status = 400
         /\ faces' = faces /\ uploads' = uploads /\ facesMap' = facesMap)]_vars

\* The directory a URL points into, of the three given.
DirOf(url, a, f, u) ==
  CASE url[1] = "avatars" -> a
    [] url[1] = "faces" -> f
    [] OTHER -> u

\* C15: a successful upload leaves one file for its key, the uploaded one,
\* at the URL it returns, and the files of the other names as they were.
OneFilePerKey ==
  [][(response' # response /\ response'.to \in {"avatar", "face"}
        /\ response'.status = 200) =>
       LET name == Tail(response'.url)
           file == response'.upload.file
           before == DirOf(response'.url, avatars, faces, uploads)
           after == DirOf(response'.url, avatars', faces', uploads')
       IN /\ { f \in after : f.name = name }
               = {[name |-> name, mimetype |-> file.mimetype, data |-> file.data]}
          /\ { f \in after : f.name # name } = { f \in before : f.name # name }]_vars

====
